---- MODULE Spec2Model ----
(***************************************************************************)
(* APOLLO conversational agent core.                                       *)
(*                                                                         *)
(* Server side: one chat turn of the Life Coordinator agent                *)
(* (generate_response, _execute_tool_calls, _get_final_response, TaskTools,*)
(* ContextBuilder, generate_stream) around the conversation tables.        *)
(* Client side: the chat page's sendMessage with its read loop and its     *)
(* 30 second timer.                                                        *)
(***************************************************************************)
EXTENDS Integers, Sequences, FiniteSets, TLC

VARIABLES
    \* ---- server: the turn ------------------------------------------------
    pc,             \* position of the turn (the spec's state names)
    trail,          \* history: the positions this turn has entered, in order
    turn,           \* number of turns received so far
    user_id,        \* current_user.id (from the JWT) of the logged-in user
    conv_id,        \* conversation of the turn, 0 = none yet
    user_msg_id,    \* messages.id of the turn's user message, 0 = not saved
    asst_msg_id,    \* messages.id of the turn's assistant message, 0 = not saved
    message,        \* response.choices[0].message of the first model call
    results,        \* the results list of _execute_tool_calls
    execLog,        \* history: one entry per executed tool call
    handed,         \* the role=function messages given to the second model call
    final,          \* the final response text (a sequence of chunks)
    modelCalls,     \* chat.completions.create calls issued in this turn
    budget_tokens,  \* the token budget the turn's context is to stay within
    user_context,   \* what build_context returned: the tasks rows and the stats
    stream,         \* the SSE events generate_stream has yielded
    streamClosed,   \* generate_stream has returned or raised
    conversation_history, \* request.conversation_history, the client's list
    full_messages,  \* the messages of the first chat.completions.create call
    caller,         \* the caller's connection: "connected", "disconnected",
                    \* or "cancelled" once the response task has been cancelled
    left_at,        \* history: where the turn was when the caller disconnected,
                    \* "unsaved" (its assistant message not stored yet) or
                    \* "saved"; "none" while the caller has not
    \* ---- server: tables ---------------------------------------------------
    conversations,  \* conversations table, id = index
    messages_tbl,   \* messages table, id = index
    tasks,          \* tasks table, id = index
    clock,          \* NOW()
    \* ---- client: the chat page -------------------------------------------
    input,          \* the text box (useState input)
    isStreaming,    \* useState isStreaming
    messages,       \* useState messages: the messages the page shows
    conversationId, \* useState conversationId, 0 = null
    calls,          \* the sendMessage calls made so far, each with its locals
    \* ---- token estimator --------------------------------------------------
    encoding_cache, \* lru_cache of _get_encoding_cached, least recent first
    estimated,      \* the last estimate call: its number, model, text and result
    \* ---- client: the planning page ---------------------------------------
    items,          \* useState items: the timeline items fetched
    hierarchyView,  \* what buildHierarchy returned for the last render
    \* ---- server: the route POST /chat/message of the plan ------------------
    gen,            \* position of generate_stream
    grs,            \* position of generate_response_stream
    deltas,         \* the deltas of the streamed completion not yet read
    yielded,        \* what generate_response_stream has yielded
    \* ---- client: loadLastConversation of the chat page --------------------
    loading,        \* position of loadLastConversation
    lastConversation \* the user's last conversation in the store, if any

srvVars == <<pc, trail, turn, user_id, conv_id, user_msg_id, asst_msg_id, message,
             results, execLog, handed, final, modelCalls, budget_tokens, user_context,
             stream, streamClosed, caller, left_at, conversation_history,
             full_messages, conversations, messages_tbl, tasks, clock>>

cliVars == <<input, isStreaming, messages, conversationId, calls>>

estVars == <<encoding_cache, estimated>>

planVars == <<items, hierarchyView>>

routeVars == <<gen, grs, deltas, yielded>>

loadVars == <<loading, lastConversation>>

vars == <<srvVars, cliVars, estVars, planVars, routeVars, loadVars>>

----------------------------------------------------------------------------
\* Bounds of the model

MaxTurns == 1
MaxCalls == 2

Users == {"u1", "u2"}
NULL == "null"

----------------------------------------------------------------------------
\* TaskTools (plan.md, task_tools.py)

ErrMultipleValues == "got multiple values for keyword argument 'user_id'"
ErrUnexpectedKw == "got an unexpected keyword argument"
ErrMissingArg == "missing required positional argument"
ErrTitle == "Title must be at least 3 characters"
ErrCreate == "Failed to create task"
ErrNotFound == "Task not found or access denied"
ErrStore == "APIError"
ErrUnknown(function_name) == "Unknown function: " \o function_name

\* Python's binding of f(user_id=user_id, **function_args) to f's parameters:
\* "ok", or the TypeError it raises.
BindArgs(args, params, required) ==
    IF "user_id" \in DOMAIN args THEN ErrMultipleValues
    ELSE IF ~(DOMAIN args \subseteq params) THEN ErrUnexpectedKw
    ELSE IF ~(required \subseteq DOMAIN args) THEN ErrMissingArg
    ELSE "ok"

Raise(msg, tbl) == [raised |-> TRUE, error |-> msg, tasks |-> tbl]
Return(row, tbl) == [raised |-> FALSE, result |-> row, tasks |-> tbl]

\* A create_task whose insert is run twice
create_task_twice(uid, args, db_ok, tbl) ==
    LET title == args.title
        description == IF "description" \in DOMAIN args THEN args.description ELSE NULL
        status == IF "status" \in DOMAIN args THEN args.status ELSE "pending"
        row == [id |-> Len(tbl) + 1, user_id |-> uid, title |-> title,
                description |-> description, status |-> status,
                created_at |-> Len(tbl) + 1]
    IN  IF title = "" \/ Len(title) < 3 THEN Raise(ErrTitle, tbl)
        ELSE IF ~db_ok THEN Raise(ErrCreate, tbl)
        ELSE Return(row, Append(Append(tbl, row), [row EXCEPT !.id = Len(tbl) + 2]))

\* TaskTools.create_task
create_task(uid, args, db_ok, tbl) ==
    LET title == args.title
        description == IF "description" \in DOMAIN args THEN args.description ELSE NULL
        status == IF "status" \in DOMAIN args THEN args.status ELSE "pending"
        row == [id |-> Len(tbl) + 1, user_id |-> uid, title |-> title,
                description |-> description, status |-> status,
                created_at |-> Len(tbl) + 1]
    IN  IF title = "" \/ Len(title) < 3 THEN Raise(ErrTitle, tbl)
        ELSE IF ~db_ok THEN Raise(ErrCreate, tbl)
        ELSE Return(row, Append(tbl, row))

\* supabase .update(updates): the named columns are overwritten
UpdateRow(row, updates) ==
    [f \in DOMAIN row |-> IF f \in DOMAIN updates THEN updates[f] ELSE row[f]]

\* An update_task that tells a task of another user from a missing one
update_task_forbidden(uid, args, db_ok, tbl) ==
    LET task_id == args.task_id
        task == {i \in 1..Len(tbl) : tbl[i].id = task_id /\ tbl[i].user_id = uid}
    IN  IF ~db_ok THEN Raise(ErrStore, tbl)
        ELSE IF task = {} THEN
            IF \E i \in 1..Len(tbl) : tbl[i].id = task_id
            THEN Raise("Access denied", tbl)
            ELSE Raise(ErrNotFound, tbl)
        ELSE LET row == UpdateRow(tbl[task_id], args.updates)
             IN  Return(row, [tbl EXCEPT ![task_id] = row])

\* TaskTools.update_task
update_task(uid, args, db_ok, tbl) ==
    LET task_id == args.task_id
        task == {i \in 1..Len(tbl) : tbl[i].id = task_id /\ tbl[i].user_id = uid}
    IN  IF ~db_ok THEN Raise(ErrStore, tbl)
        ELSE IF task = {} THEN Raise(ErrNotFound, tbl)
        ELSE LET row == UpdateRow(tbl[task_id], args.updates)
             IN  Return(row, [tbl EXCEPT ![task_id] = row])

\* The call task_tools.<name>(user_id=user_id, **function_args)
CallTool(name, uid, args, db_ok, tbl) ==
    IF name = "create_task" THEN
        LET b == BindArgs(args, {"title", "description", "status"}, {"title"})
        IN  IF b # "ok" THEN Raise(b, tbl) ELSE create_task(uid, args, db_ok, tbl)
    ELSE
        LET b == BindArgs(args, {"task_id", "updates"}, {"task_id", "updates"})
        IN  IF b # "ok" THEN Raise(b, tbl) ELSE update_task(uid, args, db_ok, tbl)

\* A results list that grows at the front
AppendResult_front(rs, r) == <<r>> \o rs

\* results.append(...)
AppendResult(rs, r) == Append(rs, r)

\* The names _execute_tool_calls routes
RegisteredTools == {"create_task", "update_task"}

\* A routing that asks the store about a name it does not know
ExecuteToolCall_asksStore(tool_call, uid, db_ok, tbl) ==
    LET function_name == tool_call.name
    IN  IF function_name \in RegisteredTools THEN
            LET r == CallTool(function_name, uid, tool_call.arguments, db_ok, tbl)
            IN  IF r.raised
                THEN [entry |-> [tool |-> function_name, status |-> "error",
                                 error |-> r.error],
                      tasks |-> r.tasks]
                ELSE [entry |-> [tool |-> function_name, status |-> "success",
                                 result |-> r.result],
                      tasks |-> r.tasks]
        ELSE [entry |-> [tool |-> function_name, status |-> "error",
                         error |-> IF db_ok THEN ErrUnknown(function_name)
                                   ELSE ErrStore],
              tasks |-> tbl]

\* One iteration of the for loop of _execute_tool_calls, from the try on:
\* the result entry and the tasks table after it.
ExecuteToolCall(tool_call, uid, db_ok, tbl) ==
    LET function_name == tool_call.name
    IN  IF function_name \in RegisteredTools THEN
            LET r == CallTool(function_name, uid, tool_call.arguments, db_ok, tbl)
            IN  IF r.raised
                THEN [entry |-> [tool |-> function_name, status |-> "error",
                                 error |-> r.error],
                      tasks |-> r.tasks]
                ELSE [entry |-> [tool |-> function_name, status |-> "success",
                                 result |-> r.result],
                      tasks |-> r.tasks]
        ELSE [entry |-> [tool |-> function_name, status |-> "error",
                         error |-> ErrUnknown(function_name)],
              tasks |-> tbl]

----------------------------------------------------------------------------
\* What the model (OpenAI) may answer

\* A tool call of the response: function.name and function.arguments, the
\* arguments being a JSON text: json_ok is whether json.loads parses it,
\* arguments is what it parses to.
ToolCall(name, args) == [name |-> name, arguments |-> args, json_ok |-> TRUE]

Completed == [status |-> "completed"]

\* Updates that name a column outside the documented ones
Reassign == [status |-> "completed", user_id |-> "u2"]

\* Updates with a title below the minimum length
Retitle == [title |-> "ab"]

\* update_task's "Fields to update (title, description, status)"
UpdateWhitelist == {"title", "description", "status"}

ToolCallCatalog ==
    { ToolCall("create_task", [title |-> "Buy milk"]),
      ToolCall("create_task", [title |-> "ab"]),
      ToolCall("create_task", [title |-> "Buy milk", user_id |-> "u2"]),
      ToolCall("create_task", [description |-> "soon"]),
      ToolCall("update_task", [task_id |-> 1, updates |-> Completed]),
      ToolCall("update_task", [task_id |-> 2, updates |-> Completed]),
      ToolCall("update_task", [task_id |-> 2, updates |-> Completed, user_id |-> "u2"]),
      ToolCall("update_task", [task_id |-> 9, updates |-> Completed]),
      ToolCall("update_task", [task_id |-> 1, updates |-> Reassign]),
      ToolCall("update_task", [task_id |-> 1, updates |-> Retitle]),
      ToolCall("delete_task", [task_id |-> 1]),
      [name |-> "create_task", arguments |-> [title |-> "Buy milk"], json_ok |-> FALSE] }

\* The text of a model answer, as the chunks it is streamed in
ModelTexts == { <<>>, <<"all", "set">> }

\* The tool calls the turns of the model are run with: one that succeeds, one
\* that succeeds or is refused by the ownership check, one whose arguments
\* are no JSON
TurnCatalog ==
    { ToolCall("create_task", [title |-> "Buy milk"]),
      ToolCall("update_task", [task_id |-> 2, updates |-> Completed]),
      [name |-> "create_task", arguments |-> [title |-> "Buy milk"], json_ok |-> FALSE] }

SeqsOver(S) == UNION { [1..n -> S] : n \in 1..MaxCalls }

ToolCallSeqs == SeqsOver(TurnCatalog)

ModelResponses ==
    { [content |-> c, tool_calls |-> <<>>] : c \in ModelTexts }
    \cup { [content |-> <<>>, tool_calls |-> tc] : tc \in ToolCallSeqs }

NoMessage == [content |-> <<>>, tool_calls |-> <<>>]

\* A branch that never sees the tool calls
HasToolCalls_never(m) == FALSE

\* if message.tool_calls:
HasToolCalls(m) == m.tool_calls # <<>>

----------------------------------------------------------------------------
\* Conversation tables (conversations and messages, SQL schema) and the
\* Conversation Store operations of the chat route

\* INSERT INTO conversations
InsertConversation(tbl, uid, now) ==
    Append(tbl, [id |-> Len(tbl) + 1, user_id |-> uid, title |-> NULL,
                 created_at |-> now, updated_at |-> now])

\* INSERT INTO messages
InsertMessage(tbl, cid, role, content, tool_calls, now) ==
    Append(tbl, [id |-> Len(tbl) + 1, conversation_id |-> cid, role |-> role,
                 content |-> content, tool_calls |-> tool_calls,
                 created_at |-> now])

\* An append that loses the row
append_message_lost(tbl, cid, role, content, tool_calls, now) == tbl

\* An append that writes the row twice
append_message_twice(tbl, cid, role, content, tool_calls, now) ==
    InsertMessage(InsertMessage(tbl, cid, role, content, tool_calls, now),
                  cid, role, content, tool_calls, now)

\* append_message(conversation_id, role, content, tool_record?)
append_message(tbl, cid, role, content, tool_calls, now) ==
    InsertMessage(tbl, cid, role, content, tool_calls, now)

\* UPDATE conversations SET updated_at = NOW() WHERE id = cid
TouchConversation(tbl, cid, now) == [tbl EXCEPT ![cid].updated_at = now]

\* get_recent_messages(conversation_id, limit)
get_recent_messages(tbl, cid, limit) ==
    LET rows == SelectSeq(tbl, LAMBDA m : m.conversation_id = cid)
    IN  IF Len(rows) <= limit THEN rows
        ELSE SubSeq(rows, Len(rows) - limit + 1, Len(rows))

HistoryLimit == 10

----------------------------------------------------------------------------
\* ContextBuilder and the prompt's context block

TaskLimit == 20
ContextWindow == 8192

Min(a, b) == IF a < b THEN a ELSE b

Reverse(sq) == [i \in 1..Len(sq) |-> sq[Len(sq) + 1 - i]]

\* ContextBuilder._get_user_tasks: the user's pending and in_progress tasks,
\* newest first (the table is kept in the order of created_at), at most 20
get_user_tasks(uid, tbl) ==
    LET mine == SelectSeq(tbl, LAMBDA t : t.user_id = uid
                                          /\ t.status \in {"pending", "in_progress"})
        newest == Reverse(mine)
    IN  SubSeq(newest, 1, Min(TaskLimit, Len(newest)))

\* ContextBuilder._get_user_stats: the counts of the user's tasks
get_user_stats(uid, tbl) ==
    [total_tasks |-> Len(SelectSeq(tbl, LAMBDA t : t.user_id = uid)),
     pending_tasks |-> Len(SelectSeq(tbl, LAMBDA t : t.user_id = uid
                                                     /\ t.status = "pending"))]

\* ContextBuilder.build_context: {"tasks": tasks, "stats": stats}
build_context(uid, tbl) ==
    [tasks |-> get_user_tasks(uid, tbl), stats |-> get_user_stats(uid, tbl)]

\* The value of user_context before build_context has returned
NoContext == [tasks |-> <<>>, stats |-> [total_tasks |-> 0, pending_tasks |-> 0]]

\* "\n".join(lines)
RECURSIVE JoinLines(_)
JoinLines(lines) ==
    IF lines = <<>> THEN ""
    ELSE IF Len(lines) = 1 THEN lines[1]
    ELSE lines[1] \o "\n" \o JoinLines(Tail(lines))

\* LifeCoordinator._format_user_context: tasks = user_context.get("tasks", [])
format_user_context(context) ==
    LET ctx_tasks == context.tasks
    IN  IF ctx_tasks = <<>> THEN "User has no active tasks."
        ELSE "Current Tasks:\n" \o
             JoinLines([i \in 1..Len(ctx_tasks) |->
                          "- " \o ctx_tasks[i].title \o " (status: "
                               \o ctx_tasks[i].status \o ")"])

DecimalDigits == <<"0", "1", "2", "3", "4", "5", "6", "7", "8", "9">>

\* str(n) of a natural number
RECURSIVE StrNat(_)
StrNat(n) ==
    IF n < 10 THEN DecimalDigits[n + 1]
    ELSE StrNat(n \div 10) \o DecimalDigits[(n % 10) + 1]

\* repr of a text column: None, or the text in quotes
ReprText(v) == IF v = NULL THEN "None" ELSE "'" \o v \o "'"

\* repr of a row of the tasks table
ReprTask(t) ==
    "{'id': " \o StrNat(t.id) \o ", 'user_id': " \o ReprText(t.user_id)
    \o ", 'title': " \o ReprText(t.title)
    \o ", 'description': " \o ReprText(t.description)
    \o ", 'status': " \o ReprText(t.status)
    \o ", 'created_at': " \o StrNat(t.created_at) \o "}"

\* ", ".join(items)
RECURSIVE JoinComma(_)
JoinComma(parts) ==
    IF parts = <<>> THEN ""
    ELSE IF Len(parts) = 1 THEN parts[1]
    ELSE parts[1] \o ", " \o JoinComma(Tail(parts))

\* str(context) of the dict build_context returns
StrContext(context) ==
    "{'tasks': ["
    \o JoinComma([i \in 1..Len(context.tasks) |-> ReprTask(context.tasks[i])])
    \o "], 'stats': {'total_tasks': " \o StrNat(context.stats.total_tasks)
    \o ", 'pending_tasks': " \o StrNat(context.stats.pending_tasks) \o "}}"

\* The rough token estimate of the plan, len(text) * 0.5: a float with at
\* most one decimal, given here in tenths of a token (12.5 is 125)
estimate_tokens(text) == Len(text) * 5

\* A number of whole tokens in tenths of a token
InTenths(tokens) == tokens * 10

\* The estimate the plan takes of a built context: len(str(context)) * 0.5,
\* in tenths of a token
SnapshotCost == estimate_tokens(StrContext(user_context))

----------------------------------------------------------------------------
\* The messages of the model call

SystemPrompt == "You are the Life Coordinator"

\* What a page may send as conversation_history: nothing, or what it shows of
\* an earlier exchange
ClientHistories ==
    { <<>>,
      << [role |-> "user", content |-> "hello"],
         [role |-> "assistant", content |-> "hi there"] >> }

\* The chat route: the messages passed to generate_response are the last 10
\* of the request's conversation_history, then the user's message
ChatMessages(history, text) ==
    (IF Len(history) <= HistoryLimit THEN history
     ELSE SubSeq(history, Len(history) - HistoryLimit + 1, Len(history)))
    \o <<[role |-> "user", content |-> text]>>

\* generate_response: full_messages
FullMessages(context, msgs) ==
    << [role |-> "system", content |-> SystemPrompt],
       [role |-> "system", content |-> format_user_context(context)] >> \o msgs

----------------------------------------------------------------------------
\* The turn

UserText == "plan my day"

Terminal == {"PERSISTED", "FAILED"}

InitTasks ==
    << [id |-> 1, user_id |-> "u1", title |-> "Write report",
        description |-> NULL, status |-> "pending", created_at |-> 1],
       [id |-> 2, user_id |-> "u2", title |-> "Call bank",
        description |-> NULL, status |-> "pending", created_at |-> 2] >>

InitServer ==
    /\ pc = "IDLE"
    /\ trail = <<>>
    /\ turn = 0
    /\ user_id \in Users
    /\ conv_id = 0
    /\ user_msg_id = 0
    /\ asst_msg_id = 0
    /\ message = NoMessage
    /\ results = <<>>
    /\ execLog = <<>>
    /\ handed = <<>>
    /\ final = <<>>
    /\ modelCalls = 0
    /\ budget_tokens = ContextWindow
    /\ user_context = NoContext
    /\ stream = <<>>
    /\ streamClosed = FALSE
    /\ caller = "connected"
    /\ left_at = "none"
    /\ conversation_history = <<>>
    /\ full_messages = <<>>
    \* no conversation yet, or the one the page has created (POST /conversations)
    /\ conversations \in {<<>>, InsertConversation(<<>>, user_id, 0)}
    /\ messages_tbl = <<>>
    /\ tasks = InitTasks
    /\ clock = 1
    /\ gen = "idle"
    /\ grs = "idle"
    /\ deltas = <<>>
    /\ yielded = <<>>

Goto(p) == /\ pc' = p
           /\ trail' = Append(trail, p)

\* An exception leaves the route: the generator raises, the response ends
Fail == /\ Goto("FAILED")
        /\ streamClosed' = TRUE

\* POST /chat/stream: a request of an authenticated user arrives
ReceiveTurn ==
    /\ pc \in {"IDLE"} \cup Terminal
    /\ pc \in Terminal => streamClosed
    /\ turn < MaxTurns
    /\ \E c \in {0} \cup {i \in 1..Len(conversations) :
                                conversations[i].user_id = user_id} :
          conv_id' = c
    /\ UNCHANGED user_id
    /\ turn' = turn + 1
    /\ pc' = "RECEIVED"
    /\ trail' = <<"RECEIVED">>
    /\ user_msg_id' = 0
    /\ asst_msg_id' = 0
    /\ message' = NoMessage
    /\ results' = <<>>
    /\ execLog' = <<>>
    /\ handed' = <<>>
    /\ final' = <<>>
    /\ modelCalls' = 0
    /\ user_context' = NoContext
    /\ stream' = <<>>
    /\ streamClosed' = FALSE
    /\ caller' = "connected"
    /\ left_at' = "none"
    /\ \E h \in ClientHistories : conversation_history' = h
    /\ full_messages' = <<>>
    /\ UNCHANGED <<budget_tokens, conversations, messages_tbl, tasks, clock>>
    /\ UNCHANGED <<cliVars, estVars, planVars, routeVars, loadVars>>

\* _handle_with_tools, 1: saves the user message (get_or_create_conversation,
\* then append_message)
SaveUserMessage ==
    /\ pc = "RECEIVED"
    /\ \E ok \in BOOLEAN :
         IF ok THEN
            LET convs == IF conv_id = 0
                         THEN InsertConversation(conversations, user_id, clock)
                         ELSE conversations
                cid == IF conv_id = 0 THEN Len(convs) ELSE conv_id
                msgs == append_message(messages_tbl, cid, "user", UserText, NULL, clock)
            IN  /\ conversations' = convs
                /\ conv_id' = cid
                /\ messages_tbl' = msgs
                /\ user_msg_id' = IF Len(msgs) > Len(messages_tbl) THEN Len(msgs) ELSE 0
                /\ clock' = clock + 1
                /\ Goto("USER_SAVED")
                /\ UNCHANGED streamClosed
         ELSE /\ Fail
              /\ UNCHANGED <<conversations, conv_id, messages_tbl, user_msg_id, clock>>
    /\ UNCHANGED <<turn, user_id, asst_msg_id, message, results, execLog, handed,
                   final, modelCalls, budget_tokens, user_context, stream, tasks>>
    /\ UNCHANGED <<caller, left_at>>
    /\ UNCHANGED <<conversation_history, full_messages>>
    /\ UNCHANGED <<cliVars, estVars, planVars, routeVars, loadVars>>

\* generate_response: user_context = await context_builder.build_context(user_id)
BuildContext ==
    /\ pc = "USER_SAVED"
    /\ \E ok \in BOOLEAN :
         IF ok THEN /\ user_context' = build_context(user_id, tasks)
                    /\ Goto("CONTEXT_BUILT")
                    /\ UNCHANGED streamClosed
               ELSE /\ Fail
                    /\ UNCHANGED user_context
    /\ UNCHANGED <<turn, user_id, conv_id, user_msg_id, asst_msg_id, message, results,
                   execLog, handed, final, modelCalls, budget_tokens, stream,
                   conversations, messages_tbl, tasks, clock>>
    /\ UNCHANGED <<caller, left_at>>
    /\ UNCHANGED <<conversation_history, full_messages>>
    /\ UNCHANGED <<cliVars, estVars, planVars, routeVars, loadVars>>

\* generate_response: builds full_messages and issues the first request,
\* client.chat.completions.create(..., tools=...); the task is then suspended
\* in the await of the answer
IssueFirstModelCall ==
    /\ pc = "CONTEXT_BUILT"
    /\ modelCalls = 0
    /\ modelCalls' = 1
    /\ full_messages' = FullMessages(user_context,
                            ChatMessages(conversation_history, UserText))
    /\ UNCHANGED <<pc, trail, turn, user_id, conv_id, user_msg_id, asst_msg_id, message,
                   results, execLog, handed, final, budget_tokens, user_context,
                   stream, streamClosed, conversations, messages_tbl, tasks, clock>>
    /\ UNCHANGED <<caller, left_at>>
    /\ UNCHANGED conversation_history
    /\ UNCHANGED <<cliVars, estVars, planVars, routeVars, loadVars>>

\* generate_response: response = await client.chat.completions.create(...)
\* returns the model's message, or raises
FirstModelCall ==
    /\ pc = "CONTEXT_BUILT"
    /\ modelCalls = 1
    /\ \/ \E m \in ModelResponses :
            /\ message' = m
            /\ Goto("MODEL_CALLED")
            /\ UNCHANGED streamClosed
       \/ /\ Fail
          /\ UNCHANGED message
    /\ UNCHANGED <<turn, user_id, conv_id, user_msg_id, asst_msg_id, results, execLog,
                   handed, final, modelCalls, budget_tokens, user_context, stream,
                   conversations, messages_tbl, tasks, clock, full_messages>>
    /\ UNCHANGED <<caller, left_at>>
    /\ UNCHANGED conversation_history
    /\ UNCHANGED <<cliVars, estVars, planVars, routeVars, loadVars>>

\* generate_response: the branch on message.tool_calls
CheckToolCalls ==
    /\ pc = "MODEL_CALLED"
    /\ IF HasToolCalls(message)
       THEN /\ Goto("TOOLS_REQUESTED")
            /\ UNCHANGED final
       ELSE /\ Goto("FINALIZED")
            /\ final' = message.content
    /\ UNCHANGED <<turn, user_id, conv_id, user_msg_id, asst_msg_id, message, results,
                   execLog, handed, modelCalls, budget_tokens, user_context, stream,
                   streamClosed, conversations, messages_tbl, tasks, clock>>
    /\ UNCHANGED <<caller, left_at>>
    /\ UNCHANGED <<conversation_history, full_messages>>
    /\ UNCHANGED <<cliVars, estVars, planVars, routeVars, loadVars>>

\* A for loop that does not end with the last tool call
LoopEnds_never(i, tool_calls) == FALSE

\* for tool_call in tool_calls: the i-th iteration is the last
LoopEnds(i, tool_calls) == i = Len(tool_calls)

\* _execute_tool_calls: one iteration of the for loop
ExecuteNextToolCall ==
    /\ pc = "TOOLS_REQUESTED"
    /\ Len(execLog) < Len(message.tool_calls)
    /\ LET i == Len(execLog) + 1
           tool_call == message.tool_calls[i]
       IN  IF ~tool_call.json_ok
           THEN \* json.loads raises before the try
                /\ Fail
                /\ UNCHANGED <<results, execLog, tasks>>
           ELSE \E db_ok \in BOOLEAN :
                LET x == ExecuteToolCall(tool_call, user_id, db_ok, tasks)
                IN  /\ results' = AppendResult(results, x.entry)
                    /\ execLog' = Append(execLog,
                                    [idx |-> i, req |-> tool_call, db_ok |-> db_ok,
                                     before |-> tasks, entry |-> x.entry,
                                     after |-> x.tasks])
                    /\ tasks' = x.tasks
                    /\ IF LoopEnds(i, message.tool_calls)
                       THEN Goto("TOOLS_EXECUTED")
                       ELSE UNCHANGED <<pc, trail>>
                    /\ UNCHANGED streamClosed
    /\ UNCHANGED <<turn, user_id, conv_id, user_msg_id, asst_msg_id, message, handed,
                   final, modelCalls, budget_tokens, user_context, stream,
                   conversations, messages_tbl, clock>>
    /\ UNCHANGED <<caller, left_at>>
    /\ UNCHANGED <<conversation_history, full_messages>>
    /\ UNCHANGED <<cliVars, estVars, planVars, routeVars, loadVars>>

\* _get_final_response: the role=function messages, tool_result["result"] each
FunctionMessages(tool_results) ==
    [i \in 1..Len(tool_results) |->
        [role |-> "function", name |-> tool_results[i].tool,
         content |-> tool_results[i].result]]

\* _get_final_response: tool_result["result"] raises KeyError on an error entry
AllHaveResult(tool_results) ==
    \A i \in 1..Len(tool_results) : "result" \in DOMAIN tool_results[i]

\* _get_final_response: appends one function message per tool result and
\* issues the second request; the task is then suspended in the await of the
\* answer
IssueFinalModelCall ==
    /\ pc = "TOOLS_EXECUTED"
    /\ modelCalls = 1
    /\ IF ~AllHaveResult(results)
       THEN /\ Fail
            /\ UNCHANGED <<handed, modelCalls>>
       ELSE /\ handed' = FunctionMessages(results)
            /\ modelCalls' = 2
            /\ UNCHANGED <<pc, trail, streamClosed>>
    /\ UNCHANGED <<turn, user_id, conv_id, user_msg_id, asst_msg_id, message, results,
                   execLog, final, budget_tokens, user_context, stream, conversations,
                   messages_tbl, tasks, clock>>
    /\ UNCHANGED <<caller, left_at>>
    /\ UNCHANGED <<conversation_history, full_messages>>
    /\ UNCHANGED <<cliVars, estVars, planVars, routeVars, loadVars>>

\* _get_final_response: response = await client.chat.completions.create(...)
\* returns the final text, or raises
GetFinalResponse ==
    /\ pc = "TOOLS_EXECUTED"
    /\ modelCalls = 2
    /\ \/ \E c \in ModelTexts :
            /\ final' = c
            /\ Goto("MODEL_RESUMED")
            /\ UNCHANGED streamClosed
       \/ /\ Fail
          /\ UNCHANGED final
    /\ UNCHANGED <<turn, user_id, conv_id, user_msg_id, asst_msg_id, message, results,
                   execLog, handed, modelCalls, budget_tokens, user_context, stream,
                   conversations, messages_tbl, tasks, clock>>
    /\ UNCHANGED <<caller, left_at>>
    /\ UNCHANGED <<conversation_history, full_messages>>
    /\ UNCHANGED <<cliVars, estVars, planVars, routeVars, loadVars>>

\* generate_response returns {"response": final_response, "tool_calls": tool_results}
ReturnResponse ==
    /\ pc = "MODEL_RESUMED"
    /\ Goto("FINALIZED")
    /\ UNCHANGED <<turn, user_id, conv_id, user_msg_id, asst_msg_id, message, results,
                   execLog, handed, final, modelCalls, budget_tokens, user_context,
                   stream, streamClosed, conversations, messages_tbl, tasks, clock>>
    /\ UNCHANGED <<caller, left_at>>
    /\ UNCHANGED <<conversation_history, full_messages>>
    /\ UNCHANGED <<cliVars, estVars, planVars, routeVars, loadVars>>

\* The tool record stored with the assistant message: the tool_calls list
\* generate_response returns, each entry as the tool loop built it
\* ({tool, status, result} or {tool, status, error})
ToolRecord(tool_results) == tool_results

\* A handler that saves the response only for a caller that is still there
SaveResponse_ifConnected(tbl, cid, content, record, now, c) ==
    IF c = "connected"
    THEN append_message(tbl, cid, "assistant", content, record, now)
    ELSE tbl

\* _handle_with_tools, 3: the AI response is saved whatever has become of the
\* caller c (streaming is an observation channel, not a transaction boundary)
SaveResponse(tbl, cid, content, record, now, c) ==
    append_message(tbl, cid, "assistant", content, record, now)

\* _handle_with_tools, 3 and 4: saves the AI response, updates the conversation
\* timestamp
SaveAssistantMessage ==
    /\ pc = "FINALIZED"
    /\ \E ok \in BOOLEAN :
         IF ok THEN
            LET msgs == SaveResponse(messages_tbl, conv_id, final,
                                     ToolRecord(results), clock, caller)
            IN  /\ messages_tbl' = msgs
                /\ asst_msg_id' = IF Len(msgs) > Len(messages_tbl) THEN Len(msgs) ELSE 0
                /\ conversations' = TouchConversation(conversations, conv_id, clock)
                /\ clock' = clock + 1
                /\ Goto("PERSISTED")
                /\ UNCHANGED streamClosed
         ELSE /\ Fail
              /\ UNCHANGED <<messages_tbl, asst_msg_id, conversations, clock>>
    /\ UNCHANGED <<turn, user_id, conv_id, user_msg_id, message, results, execLog,
                   handed, final, modelCalls, budget_tokens, user_context, stream, tasks>>
    /\ UNCHANGED <<caller, left_at>>
    /\ UNCHANGED <<conversation_history, full_messages>>
    /\ UNCHANGED <<cliVars, estVars, planVars, routeVars, loadVars>>

Event(type, content) == [type |-> type, content |-> content]

Chunks(s) == SelectSeq(s, LAMBDA e : e.type = "chunk")

\* The text of a progress event
ProgressNote == "working"

\* An event of the type has been yielded in this turn
Yielded(type) == \E k \in 1..Len(stream) : stream[k].type = type

\* Stream Emitter: the optional progress event while tool execution is in
\* flight, at most one per turn
StreamProgress ==
    /\ pc = "TOOLS_REQUESTED"
    /\ ~streamClosed
    /\ ~Yielded("progress")
    /\ stream' = Append(stream, Event("progress", ProgressNote))
    /\ UNCHANGED <<pc, trail, turn, user_id, conv_id, user_msg_id, asst_msg_id, message,
                   results, execLog, handed, final, modelCalls, budget_tokens,
                   user_context, streamClosed, conversations, messages_tbl, tasks,
                   clock>>
    /\ UNCHANGED <<caller, left_at>>
    /\ UNCHANGED <<conversation_history, full_messages>>
    /\ UNCHANGED <<cliVars, estVars, planVars, routeVars, loadVars>>

\* generate_stream: yield one chunk event
StreamChunk ==
    /\ pc = "PERSISTED"
    /\ ~streamClosed
    /\ Len(Chunks(stream)) < Len(final)
    /\ stream' = Append(stream, Event("chunk", final[Len(Chunks(stream)) + 1]))
    /\ UNCHANGED <<pc, trail, turn, user_id, conv_id, user_msg_id, asst_msg_id, message,
                   results, execLog, handed, final, modelCalls, budget_tokens,
                   user_context, streamClosed, conversations, messages_tbl, tasks,
                   clock>>
    /\ UNCHANGED <<caller, left_at>>
    /\ UNCHANGED <<conversation_history, full_messages>>
    /\ UNCHANGED <<cliVars, estVars, planVars, routeVars, loadVars>>

\* generate_stream: yield the completion event, and return
StreamDone ==
    /\ pc = "PERSISTED"
    /\ ~streamClosed
    /\ Len(Chunks(stream)) = Len(final)
    /\ stream' = Append(stream, Event("done", ""))
    /\ streamClosed' = TRUE
    /\ UNCHANGED <<pc, trail, turn, user_id, conv_id, user_msg_id, asst_msg_id, message,
                   results, execLog, handed, final, modelCalls, budget_tokens,
                   user_context, conversations, messages_tbl, tasks, clock>>
    /\ UNCHANGED <<caller, left_at>>
    /\ UNCHANGED <<conversation_history, full_messages>>
    /\ UNCHANGED <<cliVars, estVars, planVars, routeVars, loadVars>>

\* The positions <<pc, modelCalls>> at which the response task is suspended
\* and a cancellation can land. In generate_response these are the awaits of
\* the two chat.completions.create calls: the first with one call issued and
\* no tool run, the second with two calls issued and every tool run. The
\* awaits of build_context and of the tool functions never return to the
\* event loop (the functions hold synchronous store calls only), so no
\* cancellation lands in them, although the spec counts them among the
\* suspension points. Of the handler around generate_response the source has
\* the order of the steps only; by the spec the model calls, the tool
\* executions and the context fetch are the only operations that may
\* suspend, so the two saves are none, and what remains are the yields of
\* the stream after the saves.
CancelPoints == {<<"CONTEXT_BUILT", 1>>, <<"TOOLS_EXECUTED", 2>>,
                 <<"PERSISTED", 1>>, <<"PERSISTED", 2>>}

\* The response task is suspended: at one of the positions above, or in the
\* yield of a progress event while the tools are in flight
Suspended ==
    \/ <<pc, modelCalls>> \in CancelPoints
    \/ pc = "TOOLS_REQUESTED" /\ Yielded("progress")

\* The caller goes away while the response is being produced
Disconnect ==
    /\ pc \notin {"IDLE", "FAILED"}
    /\ ~streamClosed
    /\ caller = "connected"
    /\ caller' = "disconnected"
    /\ left_at' = IF pc = "PERSISTED" THEN "saved" ELSE "unsaved"
    /\ UNCHANGED <<pc, trail, turn, user_id, conv_id, user_msg_id, asst_msg_id, message,
                   results, execLog, handed, final, modelCalls, budget_tokens,
                   user_context, stream, streamClosed, conversations, messages_tbl,
                   tasks, clock, conversation_history, full_messages>>
    /\ UNCHANGED <<cliVars, estVars, planVars, routeVars, loadVars>>

\* StreamingResponse: the disconnect cancels the response task, which stops at
\* the await or yield it is suspended in; what it has saved stays saved
Cancelled ==
    /\ caller = "disconnected"
    /\ ~streamClosed
    /\ Suspended
    /\ caller' = "cancelled"
    /\ streamClosed' = TRUE
    /\ IF pc = "PERSISTED" THEN UNCHANGED <<pc, trail>> ELSE Goto("FAILED")
    /\ UNCHANGED <<turn, user_id, conv_id, user_msg_id, asst_msg_id, message, results,
                   execLog, handed, final, modelCalls, budget_tokens, user_context,
                   stream, conversations, messages_tbl, tasks, clock,
                   conversation_history, full_messages, left_at>>
    /\ UNCHANGED <<cliVars, estVars, planVars, routeVars, loadVars>>

----------------------------------------------------------------------------
\* The route POST /chat/message of the plan (plan.md, routes/chat.py) and the
\* generator generate_response_stream (plan.md, life_coordinator.py): one
\* streamed model call without tools and without saving

MaxDeltas == 4

\* delta.content of the chunks of a streamed completion: text, an empty text,
\* or None
DeltaContents == {"all", "set", "", NULL}

\* The chunks of a streamed completion: content deltas, and a delta that
\* carries a piece of a tool call and no content
Deltas ==
    { [content |-> c, tool_calls |-> <<>>] : c \in DeltaContents }
    \cup { [content |-> NULL, tool_calls |-> <<"create_task">>] }

DeltaSeqs == UNION { [1..n -> Deltas] : n \in 0..MaxDeltas }

\* if delta.content: neither None nor the empty text
Truthy(content) == content # NULL /\ content # ""

\* full_messages = [...]: a list that holds the Ellipsis object
Ellipsis == "Ellipsis"

\* send_message: returns StreamingResponse(generate_stream())
send_message ==
    /\ gen \in {"idle", "closed"}
    /\ pc = "IDLE"
    /\ turn < MaxTurns
    /\ turn' = turn + 1
    /\ gen' = "started"
    /\ stream' = <<>>
    /\ streamClosed' = FALSE
    /\ UNCHANGED <<pc, trail, user_id, conv_id, user_msg_id, asst_msg_id, message,
                   results, execLog, handed, final, modelCalls, budget_tokens,
                   user_context, caller, left_at, conversation_history, full_messages,
                   conversations, messages_tbl, tasks, clock>>
    /\ UNCHANGED <<grs, deltas, yielded>>
    /\ UNCHANGED <<cliVars, estVars, planVars, loadVars>>

\* generate_stream, first step: it calls agent.generate_response_stream(
\* user_id=..., message=...), and the method has no parameter message (it
\* takes user_id, messages, task_tools): the call raises TypeError before
\* anything is read or sent, the generator has no try/except, the response
\* ends without an event
generate_stream ==
    /\ gen = "started"
    /\ gen' = "closed"
    /\ streamClosed' = TRUE
    /\ UNCHANGED <<pc, trail, turn, user_id, conv_id, user_msg_id, asst_msg_id, message,
                   results, execLog, handed, final, modelCalls, budget_tokens,
                   user_context, stream, caller, left_at, conversation_history, full_messages,
                   conversations, messages_tbl, tasks, clock>>
    /\ UNCHANGED <<grs, deltas, yielded>>
    /\ UNCHANGED <<cliVars, estVars, planVars, loadVars>>

\* generate_response_stream(user_id, messages, task_tools) called with its
\* own parameters, up to its await: builds the context, sets full_messages
\* and issues the request with stream=True; build_context may raise
generate_response_stream ==
    /\ grs = "idle"
    /\ pc = "IDLE"
    /\ \E ok \in BOOLEAN :
         IF ok THEN /\ user_context' = build_context(user_id, tasks)
                    /\ full_messages' = <<Ellipsis>>
                    /\ modelCalls' = modelCalls + 1
                    /\ grs' = "awaiting"
               ELSE /\ grs' = "raised"
                    /\ UNCHANGED <<user_context, full_messages, modelCalls>>
    /\ UNCHANGED <<pc, trail, turn, user_id, conv_id, user_msg_id, asst_msg_id, message,
                   results, execLog, handed, final, budget_tokens, stream,
                   streamClosed, caller, left_at, conversation_history, conversations,
                   messages_tbl, tasks, clock>>
    /\ UNCHANGED <<gen, deltas, yielded>>
    /\ UNCHANGED <<cliVars, estVars, planVars, loadVars>>

\* generate_response_stream: response = await client.chat.completions.create(
\* ..., stream=True) returns the stream of chunks, or raises
StreamOpens ==
    /\ grs = "awaiting"
    /\ \/ \E ds \in DeltaSeqs :
            /\ deltas' = ds
            /\ grs' = "streaming"
       \/ /\ grs' = "raised"
          /\ UNCHANGED deltas
    /\ UNCHANGED <<gen, yielded>>
    /\ UNCHANGED <<srvVars, cliVars, estVars, planVars, loadVars>>

\* generate_response_stream, one round of async for chunk in response: a
\* delta with content is yielded to the caller, a delta without content or
\* with tool calls yields nothing; reading the next chunk may raise
YieldDelta ==
    /\ grs = "streaming"
    /\ deltas # <<>>
    /\ \/ /\ deltas' = Tail(deltas)
          /\ yielded' = IF Truthy(Head(deltas).content)
                        THEN Append(yielded, Head(deltas).content)
                        ELSE yielded
          /\ UNCHANGED grs
       \/ /\ grs' = "raised"
          /\ UNCHANGED <<deltas, yielded>>
    /\ UNCHANGED gen
    /\ UNCHANGED <<srvVars, cliVars, estVars, planVars, loadVars>>

\* generate_response_stream: the completion is exhausted, the generator
\* returns (the tool calls collected are not executed)
StreamEnds ==
    /\ grs = "streaming"
    /\ deltas = <<>>
    /\ grs' = "ended"
    /\ UNCHANGED <<gen, deltas, yielded>>
    /\ UNCHANGED <<srvVars, cliVars, estVars, planVars, loadVars>>

NextMessage ==
    \/ send_message
    \/ generate_stream
    \/ generate_response_stream
    \/ StreamOpens
    \/ YieldDelta
    \/ StreamEnds

----------------------------------------------------------------------------
\* The chat page (frontend/app/chat/page.tsx)

MaxSends == 2
MaxReads == 1
MaxLines == 2

HistoryWindow == 10

\* Texts of the page are sequences of characters
Inputs == { <<>>, <<" ">>, <<"h", "i">> }
ChunkText == <<"o", "k">>
Digits == <<"1", "2", "3", "4", "5", "6", "7", "8", "9">>

\* json.content of the j-th chunk event of a response
ChunkContent(j) == Append(ChunkText, Digits[((j - 1) % Len(Digits)) + 1])
ProgressText == <<"w", "a", "i", "t">>
ErrorText == <<"s", "o", "r", "r", "y">>

RECURSIVE TrimLeft(_)
TrimLeft(t) ==
    IF t = <<>> THEN <<>>
    ELSE IF Head(t) = " " THEN TrimLeft(Tail(t)) ELSE t

\* String.prototype.trim
Trim(t) == Reverse(TrimLeft(Reverse(TrimLeft(t))))

\* A history that keeps the messages without text
ConversationHistory_keepsBlank(msgs) ==
    LET kept == SelectSeq(msgs, LAMBDA m : m.role \in {"user", "assistant"})
    IN  IF Len(kept) <= HistoryWindow THEN kept
        ELSE SubSeq(kept, Len(kept) - HistoryWindow + 1, Len(kept))

\* sendMessage: the conversation_history sent with the request
ConversationHistory(msgs) ==
    LET kept == SelectSeq(msgs, LAMBDA m : /\ m.role \in {"user", "assistant"}
                                           /\ Len(Trim(m.content)) > 0)
    IN  IF Len(kept) <= HistoryWindow THEN kept
        ELSE SubSeq(kept, Len(kept) - HistoryWindow + 1, Len(kept))

\* The setMessages updater of the read loop: the last message, when it is the
\* assistant's, gets the content
SetLastAssistant(msgs, content) ==
    IF msgs # <<>> /\ msgs[Len(msgs)].role = "assistant"
    THEN [msgs EXCEPT ![Len(msgs)].content = content]
    ELSE msgs

EventTypes == {"chunk", "progress", "done", "error"}

\* What one reader.read() may deliver: the data lines of one network chunk
LineLists == UNION { [1..n -> EventTypes] : n \in 1..MaxLines }

TerminalTypes == {"done", "error"}

\* The events up to the first terminal event
RECURSIVE BeforeTerminal(_)
BeforeTerminal(events) ==
    IF events = <<>> \/ Head(events).type \in TerminalTypes THEN <<>>
    ELSE <<Head(events)>> \o BeforeTerminal(Tail(events))

\* The texts of the chunk events, one after the other
RECURSIVE ChunkConcat(_)
ChunkConcat(events) ==
    IF events = <<>> THEN <<>>
    ELSE (IF Head(events).type = "chunk" THEN Head(events).content ELSE <<>>)
         \o ChunkConcat(Tail(events))

\* The number of chunk events among the events
ChunkCount(events) ==
    Cardinality({k \in 1..Len(events) : events[k].type = "chunk"})

\* The data lines of one network chunk as the events JSON.parse gives, the
\* response having delivered `before` chunk events already
Parsed(types, before) ==
    [k \in 1..Len(types) |->
        [type |-> types[k],
         content |-> IF types[k] = "chunk"
                     THEN ChunkContent(before
                                  + ChunkCount([j \in 1..k |-> [type |-> types[j]]]))
                     ELSE IF types[k] = "progress" THEN ProgressText
                     ELSE IF types[k] = "error" THEN ErrorText
                     ELSE <<>>]]

\* A loop that takes the text of a progress event for content as well
RECURSIVE ProcessLines_progressIsContent(_, _, _, _)
ProcessLines_progressIsContent(lines, k, st, msgs) ==
    IF k > Len(lines) THEN [st |-> st, msgs |-> msgs]
    ELSE IF lines[k].type \in {"chunk", "progress"} THEN
        LET c == st.assistantContent \o lines[k].content
        IN  ProcessLines_progressIsContent(lines, k + 1,
                                           [st EXCEPT !.assistantContent = c],
                                           SetLastAssistant(msgs, c))
    ELSE [st |-> [st EXCEPT !.isDone = TRUE, !.terminal = lines[k].type,
                            !.timeout = IF @ = "armed" THEN "cleared" ELSE @],
          msgs |-> msgs]

\* The for loop over the lines of one network chunk, from line k on:
\* the locals and the messages after it
RECURSIVE ProcessLines(_, _, _, _)
ProcessLines(lines, k, st, msgs) ==
    IF k > Len(lines) THEN [st |-> st, msgs |-> msgs]
    ELSE IF lines[k].type = "chunk" THEN
        LET c == st.assistantContent \o lines[k].content
        IN  ProcessLines(lines, k + 1, [st EXCEPT !.assistantContent = c],
                         SetLastAssistant(msgs, c))
    ELSE IF lines[k].type = "progress" THEN
        ProcessLines(lines, k + 1, st,
                     SetLastAssistant(SetLastAssistant(msgs, lines[k].content),
                                      st.assistantContent))
    ELSE \* done or error: isDone = true, clearTimeout, break
        [st |-> [st EXCEPT !.isDone = TRUE, !.terminal = lines[k].type,
                           !.timeout = IF @ = "armed" THEN "cleared" ELSE @],
         msgs |-> msgs]

\* loadLastConversation starts when the user is loaded: its first fetch is
\* under way
LoadPending == "conversations"

InitClient ==
    /\ input = <<>>
    /\ isStreaming = FALSE
    /\ messages = <<>>
    /\ conversationId = 0
    /\ calls = <<>>
    /\ loading = LoadPending

\* onChange of the text box (disabled while isStreaming)
TypeInput ==
    /\ ~isStreaming
    /\ \E t \in Inputs : input' = t
    /\ UNCHANGED <<isStreaming, messages, conversationId, calls>>
    /\ UNCHANGED <<srvVars, estVars, planVars, routeVars, loadVars>>

\* The locals of a sendMessage call at its first await, made from the input,
\* messages and conversationId of the render that submitted
NewCall(userInput, msgs, cid) ==
    [pos |-> IF cid = 0 THEN "create" ELSE "fetch",
     userInput |-> userInput,
     currentConversationId |-> cid,
     held |-> msgs,
     conversationHistory |-> ConversationHistory(msgs),
     chunks |-> 0,
     progress |-> FALSE,
     expected |-> <<>>,
     assistantContent |-> <<>>,
     isDone |-> FALSE,
     timeout |-> "none",
     reads |-> 0,
     terminal |-> "none"]

\* A call that has returned: its locals are gone, but for isDone, which the
\* closure of its timer reads, and the timer itself; kept as history are the
\* content it had accumulated and the chunk texts it had been delivered
Returned(st) ==
    [NewCall(<<>>, <<>>, 0) EXCEPT !.pos = "end", !.isDone = st.isDone,
                                   !.timeout = st.timeout,
                                   !.terminal = st.terminal,
                                   !.assistantContent = st.assistantContent,
                                   !.expected = st.expected]

\* sendMessage, up to its first await
Submit ==
    /\ Len(calls) < MaxSends
    /\ ~(Trim(input) = <<>> \/ isStreaming)
    /\ messages' = Append(messages, [role |-> "user", content |-> Trim(input)])
    /\ input' = <<>>
    /\ isStreaming' = TRUE
    /\ calls' = Append(calls, NewCall(Trim(input), messages, conversationId))
    /\ UNCHANGED conversationId
    /\ UNCHANGED <<srvVars, estVars, planVars, routeVars, loadVars>>

\* sendMessage: the catch block
Catch(i) ==
    /\ isStreaming' = FALSE
    /\ messages' = Append(messages, [role |-> "assistant", content |-> ErrorText])
    /\ calls' = [calls EXCEPT ![i] = Returned(calls[i])]

\* sendMessage: POST /conversations answers
CreateConversationReturns == \E i \in 1..Len(calls) :
    /\ calls[i].pos = "create"
    /\ \/ \E ok \in BOOLEAN :
            /\ calls' = [calls EXCEPT ![i].pos = "fetch",
                                      ![i].currentConversationId = IF ok THEN i ELSE 0]
            /\ conversationId' = IF ok THEN i ELSE conversationId
            /\ UNCHANGED <<isStreaming, messages>>
       \/ /\ Catch(i)
          /\ UNCHANGED conversationId
    /\ UNCHANGED input
    /\ UNCHANGED <<srvVars, estVars, planVars, routeVars, loadVars>>

\* sendMessage: POST /chat/stream answers
StreamResponse == \E i \in 1..Len(calls) :
    /\ calls[i].pos = "fetch"
    /\ \/ /\ messages' = Append(messages, [role |-> "assistant", content |-> <<>>])
          /\ calls' = [calls EXCEPT ![i].pos = "read", ![i].timeout = "armed"]
          /\ UNCHANGED isStreaming
       \/ Catch(i)
    /\ UNCHANGED <<input, conversationId>>
    /\ UNCHANGED <<srvVars, estVars, planVars, routeVars, loadVars>>

\* sendMessage: one pass of the read loop of call i, reader.read() having
\* delivered the data lines
ReadPass(i, lines) ==
    LET events == Parsed(lines, calls[i].chunks)
        shown == BeforeTerminal(events)
        r == ProcessLines(events, 1,
                          [calls[i] EXCEPT
                              !.reads = @ + 1,
                              !.chunks = @ + ChunkCount(shown),
                              !.progress = @ \/ \E k \in 1..Len(shown) :
                                                    shown[k].type = "progress",
                              !.expected = @ \o ChunkConcat(shown)],
                          messages)
    IN  /\ messages' = r.msgs
        /\ IF r.st.isDone
           THEN /\ calls' = [calls EXCEPT ![i] = Returned(r.st)]
                /\ isStreaming' = FALSE
           ELSE /\ calls' = [calls EXCEPT ![i] = r.st]
                /\ UNCHANGED isStreaming
        /\ UNCHANGED <<input, conversationId>>
        /\ UNCHANGED <<srvVars, estVars, planVars, routeVars, loadVars>>

\* The read loop on the page with its several calls
ReadLines == \E i \in 1..Len(calls) :
    /\ calls[i].pos = "read"
    /\ calls[i].reads < MaxReads
    /\ \E lines \in LineLists : ReadPass(i, lines)

\* The read loop of a call that is followed alone: more passes, and longer
\* network chunks
MaxStreamReads == 2
MaxStreamLines == 3

StreamLineLists == UNION { [1..n -> EventTypes] : n \in 1..MaxStreamLines }

ReadStream == \E i \in 1..Len(calls) :
    /\ calls[i].pos = "read"
    /\ calls[i].reads < MaxStreamReads
    /\ \E lines \in StreamLineLists : ReadPass(i, lines)

\* sendMessage: reader.read() reports the end of the stream
ReadEnd == \E i \in 1..Len(calls) :
    /\ calls[i].pos = "read"
    /\ calls' = [calls EXCEPT ![i] = Returned(calls[i])]
    /\ isStreaming' = FALSE
    /\ UNCHANGED <<input, messages, conversationId>>
    /\ UNCHANGED <<srvVars, estVars, planVars, routeVars, loadVars>>

\* sendMessage: reader.read() or JSON.parse throws
ReadThrows == \E i \in 1..Len(calls) :
    /\ calls[i].pos = "read"
    /\ Catch(i)
    /\ UNCHANGED <<input, conversationId>>
    /\ UNCHANGED <<srvVars, estVars, planVars, routeVars, loadVars>>

\* A timer whose callback leaves isStreaming alone
TimeoutFires_silent == \E i \in 1..Len(calls) :
    /\ calls[i].timeout = "armed"
    /\ calls' = [calls EXCEPT ![i].timeout = "fired"]
    /\ UNCHANGED <<input, isStreaming, messages, conversationId>>
    /\ UNCHANGED <<srvVars, estVars, planVars, routeVars, loadVars>>

\* The callback of setTimeout(..., 30000)
TimeoutFires == \E i \in 1..Len(calls) :
    /\ calls[i].timeout = "armed"
    /\ calls' = [calls EXCEPT ![i].timeout = "fired"]
    /\ isStreaming' = IF ~calls[i].isDone THEN FALSE ELSE isStreaming
    /\ UNCHANGED <<input, messages, conversationId>>
    /\ UNCHANGED <<srvVars, estVars, planVars, routeVars, loadVars>>

\* handleNewConversation
NewConversation ==
    /\ conversationId' = 0
    /\ messages' = <<>>
    /\ UNCHANGED <<input, isStreaming, calls>>
    /\ UNCHANGED <<srvVars, estVars, planVars, routeVars, loadVars>>

\* Conversations loadLastConversation may put on the page: none, a short
\* one, and two longer than the history window; their messages have the roles
\* the messages table allows, and some have no text
Loaded(roles, blanks) ==
    [k \in 1..Len(roles) |->
        [role |-> roles[k],
         content |-> IF k \in blanks THEN <<" ">> ELSE <<"m", Digits[((k - 1) % Len(Digits)) + 1]>>]]

Alternate(n) == [k \in 1..n |-> IF k % 2 = 1 THEN "user" ELSE "assistant"]

LoadedConversations ==
    { <<>>,
      Loaded(<<"user", "assistant", "system", "assistant">>, {2}),
      Loaded(Alternate(HistoryWindow + 2), {}),
      Loaded([Alternate(HistoryWindow + 3) EXCEPT ![5] = "system"], {8}) }

\* lastConversation.id: an id no POST /conversations of the page returns
LastConversationId == MaxSends + 1

\* What GET /conversations?limit=1 and GET /conversations/{id} have to
\* return: no conversation, or the last one with its messages
NoLastConversation == [exists |-> FALSE, messages |-> <<>>]

LastConversations ==
    {NoLastConversation}
    \cup { [exists |-> TRUE, messages |-> m] : m \in LoadedConversations }

\* loadLastConversation: GET /conversations?limit=1 answers. Not ok, an empty
\* list or an exception end the load; a conversation found is made the page's
\* conversation, and its messages are fetched
ConversationsLoaded ==
    /\ loading = "conversations"
    /\ \E ok \in BOOLEAN :
         IF ok /\ lastConversation.exists
         THEN /\ conversationId' = LastConversationId
              /\ loading' = "messages"
         ELSE /\ loading' = "done"
              /\ UNCHANGED conversationId
    /\ UNCHANGED <<input, isStreaming, messages, calls, lastConversation>>
    /\ UNCHANGED <<srvVars, estVars, planVars, routeVars>>

\* loadLastConversation: GET /conversations/{id} answers. When ok the page's
\* messages are replaced by the loaded ones; not ok or an exception leave them
MessagesLoaded ==
    /\ loading = "messages"
    /\ loading' = "done"
    /\ \E ok \in BOOLEAN :
         IF ok THEN messages' = lastConversation.messages
               ELSE UNCHANGED messages
    /\ UNCHANGED <<input, isStreaming, conversationId, calls, lastConversation>>
    /\ UNCHANGED <<srvVars, estVars, planVars, routeVars>>

NextClient ==
    \/ ConversationsLoaded
    \/ MessagesLoaded
    \/ TypeInput
    \/ Submit
    \/ CreateConversationReturns
    \/ StreamResponse
    \/ ReadLines
    \/ ReadEnd
    \/ ReadThrows
    \/ TimeoutFires
    \/ NewConversation

----------------------------------------------------------------------------
\* Token estimator: estimate(model, text) through the cached tokenizer handle

\* @lru_cache(maxsize=10)
CacheCapacity == 10

NumModels == 11

MaxEstimates == 12

\* Model identifiers
Models == 1..NumModels

Texts == {"", "hi", "plan my day"}

\* Body of _get_encoding_cached: loads the tokenizer of the model. The
\* tokenizer is a library's; it is represented by the model it was loaded for
\* and the number of characters it puts into one token.
LoadEncoding(model) == [model |-> model, chars_per_token |-> 3 + (model % 2)]

\* len(encoding.encode(text))
CountTokens(encoding, text) ==
    (Len(text) + encoding.chars_per_token - 1) \div encoding.chars_per_token

\* Position of the key in the cache, 0 = miss
CacheIndex(cache, model) ==
    IF \E i \in 1..Len(cache) : cache[i].key = model
    THEN CHOOSE i \in 1..Len(cache) : cache[i].key = model
    ELSE 0

RemoveAt(sq, i) == SubSeq(sq, 1, i - 1) \o SubSeq(sq, i + 1, Len(sq))

\* A cache that answers with its most recently used handle whatever the key
get_encoding_cached_newest(cache, model) ==
    IF cache = <<>>
    THEN [value |-> LoadEncoding(model),
          cache |-> <<[key |-> model, value |-> LoadEncoding(model)]>>]
    ELSE [value |-> cache[Len(cache)].value, cache |-> cache]

\* _get_encoding_cached(model) under lru_cache(maxsize=10): a hit returns the
\* cached handle and makes the entry the most recent; a miss loads the handle,
\* drops the least recent entry of a full cache and appends the new one.
get_encoding_cached(cache, model) ==
    LET i == CacheIndex(cache, model)
    IN  IF i # 0
        THEN [value |-> cache[i].value,
              cache |-> Append(RemoveAt(cache, i), cache[i])]
        ELSE LET room == IF Len(cache) >= CacheCapacity THEN Tail(cache)
                         ELSE cache
             IN  [value |-> LoadEncoding(model),
                  cache |-> Append(room, [key |-> model,
                                          value |-> LoadEncoding(model)])]

\* estimate(model, text): the token count and the cache it leaves
estimate(cache, model, text) ==
    LET r == get_encoding_cached(cache, model)
    IN  [tokens |-> CountTokens(r.value, text), cache |-> r.cache]

NoEstimate == [n |-> 0, model |-> 0, text |-> "", tokens |-> 0]

InitEstimator ==
    /\ encoding_cache = <<>>
    /\ estimated = NoEstimate

CachedModels == {encoding_cache[i].key : i \in 1..Len(encoding_cache)}

\* The models a call is made for: the least and the most recently used model
\* of the cache, and the lowest-numbered model the cache does not hold
CallChoices ==
    (IF encoding_cache = <<>> THEN {}
     ELSE {encoding_cache[1].key, encoding_cache[Len(encoding_cache)].key})
    \cup (IF Models \subseteq CachedModels THEN {}
          ELSE {CHOOSE m \in Models \ CachedModels :
                    \A n \in Models \ CachedModels : m <= n})

\* One call of estimate(model, text)
Estimate ==
    \E model \in CallChoices, text \in Texts :
        LET r == estimate(encoding_cache, model, text)
        IN  /\ estimated.n < MaxEstimates
            /\ estimated' = [n |-> estimated.n + 1, model |-> model,
                             text |-> text, tokens |-> r.tokens]
            /\ encoding_cache' = r.cache
            /\ UNCHANGED <<srvVars, cliVars, planVars, routeVars, loadVars>>

----------------------------------------------------------------------------
\* Client: the planning page

MaxItems == 3

Goal(id) == [type |-> "goal", id |-> id, goal_id |-> NULL, milestone_id |-> NULL]

Milestone(id, goal_id) ==
    [type |-> "milestone", id |-> id, goal_id |-> goal_id, milestone_id |-> NULL]

Task(id, milestone_id) ==
    [type |-> "task", id |-> id, goal_id |-> NULL, milestone_id |-> milestone_id]

\* The user's timeline items; the timeline of a horizon holds some of them
ItemCatalog ==
    { Goal("g1"), Goal("g2"),
      Milestone("m1", "g1"), Milestone("m2", NULL),
      Task("t1", "m1"), Task("t2", "m2"), Task("t3", NULL) }

RECURSIVE DistinctSeqs(_, _)
DistinctSeqs(S, n) ==
    IF n = 0 THEN { <<>> }
    ELSE { <<>> } \cup
         UNION { { <<x>> \o sq : sq \in DistinctSeqs(S \ {x}, n - 1) } : x \in S }

ItemLists == DistinctSeqs(ItemCatalog, MaxItems)

\* !value of an optional string field
Falsy(value) == value \in {NULL, ""}

\* { ...milestone, tasks: tasks.filter((t) => t.milestone_id === milestone.id) }
WithTasks(milestone, taskItems) ==
    [type |-> milestone.type, id |-> milestone.id, goal_id |-> milestone.goal_id,
     milestone_id |-> milestone.milestone_id,
     tasks |-> SelectSeq(taskItems, LAMBDA t : t.milestone_id = milestone.id)]

MapWithTasks(ms, taskItems) == [i \in 1..Len(ms) |-> WithTasks(ms[i], taskItems)]

\* { ...goal, milestones: ... }
WithMilestones(goal, milestones, taskItems) ==
    [type |-> goal.type, id |-> goal.id, goal_id |-> goal.goal_id,
     milestone_id |-> goal.milestone_id,
     milestones |->
         MapWithTasks(SelectSeq(milestones, LAMBDA m : m.goal_id = goal.id),
                      taskItems)]

\* buildHierarchy of PlanningPage
buildHierarchy(its) ==
    LET goals == SelectSeq(its, LAMBDA item : item.type = "goal")
        milestones == SelectSeq(its, LAMBDA item : item.type = "milestone")
        taskItems == SelectSeq(its, LAMBDA item : item.type = "task")
    IN  [hierarchy |->
             [i \in 1..Len(goals) |-> WithMilestones(goals[i], milestones, taskItems)],
         orphanedMilestones |->
             MapWithTasks(SelectSeq(milestones, LAMBDA m : Falsy(m.goal_id)),
                          taskItems),
         orphanedTasks |-> SelectSeq(taskItems, LAMBDA t : Falsy(t.milestone_id))]

InitPlanning ==
    /\ items = <<>>
    /\ hierarchyView = buildHierarchy(<<>>)

\* fetchTimeline answered OK: setItems(data.items), and the render that follows
FetchTimeline ==
    /\ \E its \in ItemLists :
          /\ items' = its
          /\ hierarchyView' = buildHierarchy(its)
    /\ UNCHANGED <<srvVars, cliVars, estVars, routeVars, loadVars>>

----------------------------------------------------------------------------
\* Specifications

\* A user without a stored conversation
Init ==
    /\ InitServer /\ InitClient /\ InitEstimator /\ InitPlanning
    /\ lastConversation = NoLastConversation

InitPage == Init /\ user_id = "u1" /\ conversations = <<>>

\* The chat page at its mount, of a user with any last conversation of
\* the given ones
InitChat(lasts) ==
    /\ InitServer /\ user_id = "u1" /\ conversations = <<>>
    /\ InitClient /\ InitEstimator /\ InitPlanning
    /\ lastConversation \in lasts

\* The page of a user without a conversation, or with one longer than the
\* history window that holds a system row and a blank row
InitClientPage ==
    InitChat({NoLastConversation,
              [exists |-> TRUE,
               messages |-> Loaded([Alternate(HistoryWindow + 3) EXCEPT ![5] = "system"],
                                   {8})]})

SpecClient == InitClientPage /\ [][NextClient]_vars

\* The route POST /chat/message and generate_response_stream, for either user
InitMessage == Init /\ conversations = <<>>

SpecMessage == InitMessage /\ [][NextMessage]_vars

\* The steps of a turn that has been received
TurnSteps ==
    \/ SaveUserMessage
    \/ BuildContext
    \/ IssueFirstModelCall
    \/ FirstModelCall
    \/ CheckToolCalls
    \/ ExecuteNextToolCall
    \/ IssueFinalModelCall
    \/ GetFinalResponse
    \/ ReturnResponse
    \/ SaveAssistantMessage
    \/ StreamProgress
    \/ StreamChunk
    \/ StreamDone
    \/ Disconnect
    \/ Cancelled

Next ==
    \/ ReceiveTurn
    \/ TurnSteps

Spec == Init /\ [][Next]_vars

\* The steps of a turn that wait on a call that returns: the store, the
\* model, a tool, the next yield of the stream
Progress ==
    \/ SaveUserMessage
    \/ BuildContext
    \/ IssueFirstModelCall
    \/ FirstModelCall
    \/ CheckToolCalls
    \/ ExecuteNextToolCall
    \/ IssueFinalModelCall
    \/ GetFinalResponse
    \/ ReturnResponse
    \/ SaveAssistantMessage
    \/ StreamChunk
    \/ StreamDone

\* The turn under the assumption that every call it awaits returns, the
\* conversation being created by the turn
InitLive == Init /\ conversations = <<>>

SpecLive == InitLive /\ [][Next]_vars /\ WF_vars(Progress)

----------------------------------------------------------------------------
\* The tool loop alone: _execute_tool_calls on any tool-call list the model
\* may return, for either user, in a turn whose user message is saved

MidTurn(p, trl) ==
    /\ pc = p
    /\ trail = trl
    /\ turn = 1
    /\ user_id \in Users
    /\ conv_id = 1
    /\ user_msg_id = 1
    /\ asst_msg_id = 0
    /\ results = <<>>
    /\ execLog = <<>>
    /\ handed = <<>>
    /\ final = <<>>
    /\ stream = <<>>
    /\ streamClosed = FALSE
    /\ caller = "connected"
    /\ left_at = "none"
    /\ conversation_history = <<>>
    /\ conversations = InsertConversation(<<>>, user_id, 1)
    /\ messages_tbl = append_message(<<>>, 1, "user", UserText, NULL, 1)
    /\ clock = 2
    /\ gen = "idle"
    /\ grs = "idle"
    /\ deltas = <<>>
    /\ yielded = <<>>
    /\ lastConversation = NoLastConversation
    /\ InitClient
    /\ InitEstimator
    /\ InitPlanning

InitExec ==
    /\ MidTurn("TOOLS_REQUESTED",
               <<"RECEIVED", "USER_SAVED", "CONTEXT_BUILT", "MODEL_CALLED",
                 "TOOLS_REQUESTED">>)
    /\ message \in { [content |-> <<>>, tool_calls |-> tc] :
                       tc \in SeqsOver(ToolCallCatalog) }
    /\ modelCalls = 1
    /\ budget_tokens = ContextWindow
    /\ tasks = InitTasks
    /\ user_context = build_context(user_id, tasks)
    /\ full_messages = FullMessages(user_context,
                           ChatMessages(conversation_history, UserText))

NextExec == ExecuteNextToolCall

SpecExec == InitExec /\ [][NextExec]_vars

----------------------------------------------------------------------------
\* Context assembly alone: build_context on any small tasks table, under any
\* of a few budgets

MaxEntities == 2

Titles == {"Buy bread", "Write the quarterly report"}

Budgets == {90, 120, 160, ContextWindow}

TaskTables ==
    UNION { { [i \in 1..n |->
                 [id |-> i, user_id |-> k[i][1], title |-> k[i][2],
                  description |-> NULL, status |-> k[i][3], created_at |-> i]] :
              k \in [1..n -> Users \X Titles \X {"pending", "completed"}] } :
            n \in 0..MaxEntities }

InitAssemble ==
    /\ MidTurn("USER_SAVED", <<"RECEIVED", "USER_SAVED">>)
    /\ message = NoMessage
    /\ modelCalls = 0
    /\ budget_tokens \in Budgets
    /\ tasks \in TaskTables
    /\ user_context = NoContext
    /\ full_messages = <<>>

NextAssemble == BuildContext

SpecAssemble == InitAssemble /\ [][NextAssemble]_vars

----------------------------------------------------------------------------
\* One sendMessage call alone, from its first await to its end, on a page that
\* sends nothing else meanwhile; loadLastConversation may still be under way

InitCall ==
    /\ InitServer /\ user_id = "u1" /\ conversations = <<>>
    /\ InitEstimator /\ InitPlanning
    /\ input = <<>>
    /\ isStreaming = TRUE
    /\ lastConversation \in LastConversations
    /\ loading \in {"conversations", "messages", "done"}
    /\ conversationId \in {0, LastConversationId}
    /\ loading = "conversations" => conversationId = 0
    /\ loading = "messages" => lastConversation.exists
    /\ \E held \in {<<>>, lastConversation.messages}, t \in Inputs :
          /\ Trim(t) # <<>>
          /\ loading # "done" => held = <<>>
          /\ messages = Append(held, [role |-> "user", content |-> Trim(t)])
          /\ calls = <<NewCall(Trim(t), held, conversationId)>>

NextCall ==
    \/ ConversationsLoaded
    \/ MessagesLoaded
    \/ CreateConversationReturns
    \/ StreamResponse
    \/ ReadStream
    \/ ReadEnd
    \/ ReadThrows
    \/ TimeoutFires

SpecCall == InitCall /\ [][NextCall]_vars

\* The exchange of one turn seen from either end: the turn of the server is
\* followed while the page has made no call, or one call of the page is
\* followed, whose server is whatever delivers the lines, so that no turn is
\* followed beside it. The two ends share no state.
InitContent == InitPage \/ InitCall

\* The request of the turn that is followed
ReceiveFollowedTurn == calls = <<>> /\ ReceiveTurn

NextContent ==
    \/ ReceiveFollowedTurn
    \/ TurnSteps
    \/ NextCall

SpecContent == InitContent /\ [][NextContent]_vars

\* The requests of the call are answered or fail, and an armed timer fires;
\* the stream may stay silent for ever
SpecCallLive ==
    /\ InitCall /\ [][NextCall]_vars
    /\ WF_vars(CreateConversationReturns)
    /\ WF_vars(StreamResponse)
    /\ WF_vars(TimeoutFires)

----------------------------------------------------------------------------
\* The token estimator alone

SpecEstimate == InitPage /\ [][Estimate]_vars

\* The planning page alone

SpecPlanning == InitPage /\ [][FetchTimeline]_vars

----------------------------------------------------------------------------
\* Properties

Range(sq) == {sq[i] : i \in 1..Len(sq)}

\* The turn's user message is a row of the messages table
UserMessageStored ==
    /\ user_msg_id \in 1..Len(messages_tbl)
    /\ messages_tbl[user_msg_id].role = "user"
    /\ messages_tbl[user_msg_id].content = UserText
    /\ messages_tbl[user_msg_id].conversation_id = conv_id

\* C1: when the stream of a turn has ended, whatever the outcome, it holds
\* exactly one terminal event (done or error), and that event is its last: no
\* chunk or progress event follows it.
C1_TerminalEventExclusivity ==
    /\ \A i \in 1..Len(stream) :
          stream[i].type \in TerminalTypes => i = Len(stream)
    /\ streamClosed =>
          /\ stream # <<>>
          /\ stream[Len(stream)].type \in TerminalTypes

\* C2: in every state of a turn that has reached CONTEXT_BUILT, the user's
\* message is in the messages table, whatever failed afterwards.
C2_UserMessageSurvives ==
    "CONTEXT_BUILT" \in Range(trail) => UserMessageStored

\* C2 witness: a turn failed after the tools ran, its user message still stored
C2_Witness ==
    /\ pc = "FAILED"
    /\ "TOOLS_EXECUTED" \in Range(trail)
    /\ UserMessageStored

\* The log entry of the execution of the i-th tool call of the response
ExecutionOf(i) == CHOOSE e \in Range(execLog) : e.idx = i

\* C3: in a turn with k >= 2 tool calls, the second model call is made only
\* with all k results collected, and the i-th function message handed to it
\* carries the result of the i-th tool call of the first response.
C3_ResultsInRequestOrder ==
    (modelCalls = 2 /\ Len(message.tool_calls) >= 2) =>
        /\ Len(execLog) = Len(message.tool_calls)
        /\ Len(handed) = Len(message.tool_calls)
        /\ \A i \in 1..Len(handed) :
              /\ handed[i].name = message.tool_calls[i].name
              /\ handed[i].content = ExecutionOf(i).entry.result

\* C3 witness: the second call was made with the results of two tool calls
\* that differ
C3_Witness ==
    /\ modelCalls = 2
    /\ Len(message.tool_calls) = 2
    /\ Len(handed) = 2
    /\ handed[1] # handed[2]

\* The log entry is an execution that targets an existing task of another
\* user, with the store answering
TargetsForeignTask(e) ==
    /\ e.db_ok
    /\ e.req.name = "update_task"
    /\ "task_id" \in DOMAIN e.req.arguments
    /\ \E i \in 1..Len(e.before) :
          /\ e.before[i].id = e.req.arguments.task_id
          /\ e.before[i].user_id # user_id

\* C4: every tool execution that targets an existing task whose owner is not
\* the authenticated user yields the not-found error, never success, and
\* leaves the tasks table as it was.
C4_ForeignTaskNotFound ==
    \A k \in 1..Len(execLog) :
        TargetsForeignTask(execLog[k]) =>
            /\ execLog[k].entry.status = "error"
            /\ execLog[k].entry.error = ErrNotFound
            /\ execLog[k].after = execLog[k].before

\* The tool call without the field that names the user
StripUserId(tc) ==
    [tc EXCEPT !.arguments =
        [f \in (DOMAIN tc.arguments) \ {"user_id"} |-> tc.arguments[f]]]

\* C5: a tool call whose arguments carry a user_id field is executed as the
\* same call without that field: same result entry, same tasks table after.
C5_IdentityFieldIgnored ==
    \A k \in 1..Len(execLog) :
        "user_id" \in DOMAIN execLog[k].req.arguments =>
            LET e == execLog[k]
                x == ExecuteToolCall(StripUserId(e.req), user_id, e.db_ok, e.before)
            IN  /\ e.entry = x.entry
                /\ e.after = x.tasks

\* C6: the context block assembled for a turn costs at most the turn's token
\* budget, for any tasks table.
C6_BudgetInvariant ==
    pc = "CONTEXT_BUILT" => SnapshotCost <= InTenths(budget_tokens)

\* C7: a turn that requested tools ends with as many results as tool calls:
\* one result, success or error, per call.
C7_OneResultPerRequest ==
    (pc \in Terminal /\ "TOOLS_REQUESTED" \in Range(trail)) =>
        Len(results) = Len(message.tool_calls)

\* The final model response of the turn has been received: the first call's
\* when it asks for no tool, the second call's otherwise
FinalResponseReceived ==
    /\ pc = "FINALIZED"
    /\ modelCalls = IF message.tool_calls = <<>> THEN 1 ELSE 2

\* C8: the first model call of a turn is issued only with the user message
\* already stored, and the assistant message is stored only with the final
\* model response already received.
C8_PersistenceOrder ==
    [][ /\ (modelCalls = 0 /\ modelCalls' = 1) => UserMessageStored
        /\ (asst_msg_id = 0 /\ asst_msg_id' # 0) => FinalResponseReceived ]_vars

\* C8 witness: a turn with tools has stored its assistant message after its
\* user message
C8_Witness ==
    /\ pc = "PERSISTED"
    /\ message.tool_calls # <<>>
    /\ modelCalls = 2
    /\ UserMessageStored
    /\ asst_msg_id > user_msg_id
    /\ messages_tbl[asst_msg_id].content = final

\* The turn's assistant message is a row of the messages table
AssistantMessageStored ==
    /\ asst_msg_id \in 1..Len(messages_tbl)
    /\ messages_tbl[asst_msg_id].role = "assistant"
    /\ messages_tbl[asst_msg_id].conversation_id = conv_id

\* The turn failed in one of its two saves: the store refused the row
SaveFailed ==
    /\ pc = "FAILED"
    /\ caller # "cancelled"
    /\ Len(trail) >= 2
    /\ trail[Len(trail) - 1] \in {"RECEIVED", "FINALIZED"}

C12_FailedResultsReachModel ==
    /\ ("TOOLS_EXECUTED" \in Range(trail) /\ pc = "FAILED" /\ caller # "cancelled")
          => modelCalls = 2
    /\ modelCalls = 2 => Len(handed) = Len(results)

\* C13: a tool call changes, in a task that exists, only the columns
\* whitelisted for update_task (title, description, status): every other
\* column of every task, its id and its owner included, is after the call
\* what it was before, whatever the arguments hold.
C13_OnlyWhitelistedFieldsChange ==
    \A e \in Range(execLog) :
        \A i \in 1..Len(e.before) :
            \A f \in DOMAIN e.before[i] \ UpdateWhitelist :
                e.after[i][f] = e.before[i][f]

\* The arguments of a tool request break the tool's validation rules: a
\* required field is missing, or a title has fewer than 3 characters
ViolatesValidation(tc) ==
    IF tc.name = "create_task"
    THEN IF "title" \in DOMAIN tc.arguments THEN Len(tc.arguments.title) < 3 ELSE TRUE
    ELSE IF tc.name = "update_task"
    THEN IF {"task_id", "updates"} \subseteq DOMAIN tc.arguments
         THEN /\ "title" \in DOMAIN tc.arguments.updates
              /\ Len(tc.arguments.updates.title) < 3
         ELSE TRUE
    ELSE FALSE

\* C14: every executed tool request whose arguments violate validation has
\* an error result, and leaves the tasks table as it was.
C14_ValidationErrorNoEffect ==
    \A e \in Range(execLog) :
        ViolatesValidation(e.req) =>
            /\ e.entry.status = "error"
            /\ e.after = e.before

\* The executed request is an update_task on an id no task has
TargetsMissingTask(e) ==
    /\ e.req.name = "update_task"
    /\ "task_id" \in DOMAIN e.req.arguments
    /\ \A i \in 1..Len(e.before) : e.before[i].id # e.req.arguments.task_id

\* The executed request is an update_task on a task of another user
TargetsOthersTask(e) ==
    /\ e.req.name = "update_task"
    /\ "task_id" \in DOMAIN e.req.arguments
    /\ \E i \in 1..Len(e.before) :
          /\ e.before[i].id = e.req.arguments.task_id
          /\ e.before[i].user_id # user_id

\* Two executed requests are the same call but for the task id
SameCallButId(e1, e2) ==
    /\ e1.db_ok = e2.db_ok
    /\ DOMAIN e1.req.arguments = DOMAIN e2.req.arguments
    /\ \A f \in DOMAIN e1.req.arguments \ {"task_id"} :
          e1.req.arguments[f] = e2.req.arguments[f]

\* C15: an update_task on an id that does not exist and the same call on a
\* task of another user have the same result entry, and neither changes the
\* tasks table: the results do not tell whether the other user's task exists.
C15_NotFoundIndistinguishable ==
    \A e1, e2 \in Range(execLog) :
        (TargetsMissingTask(e1) /\ TargetsOthersTask(e2) /\ SameCallButId(e1, e2))
            => /\ e1.entry = e2.entry
               /\ e1.after = e1.before
               /\ e2.after = e2.before

\* C15 witness: both calls were executed against a working store, and both
\* were answered not found
C15_Witness ==
    \E e1, e2 \in Range(execLog) :
        /\ TargetsMissingTask(e1) /\ TargetsOthersTask(e2) /\ SameCallButId(e1, e2)
        /\ e1.db_ok
        /\ e1.entry.error = ErrNotFound
        /\ e2.entry.error = ErrNotFound

\* What the store holds of the turn's conversation from before the turn's
\* user message, as role and content
StoreHistory ==
    LET earlier == SubSeq(messages_tbl, 1, user_msg_id - 1)
        rows == get_recent_messages(earlier, conv_id, HistoryLimit)
    IN  [i \in 1..Len(rows) |-> [role |-> rows[i].role, content |-> rows[i].content]]

\* C16: with the store available (the turn's user message was saved in it),
\* the history in the messages of the first model call, between the system
\* messages and the user's message, is the store's recent messages of the
\* conversation, not the list the client sent.
C16_StoreHistoryIsAuthoritative ==
    (pc = "MODEL_CALLED" /\ UserMessageStored) =>
        SubSeq(full_messages, 3, Len(full_messages) - 1) = StoreHistory

\* C17: the updated_at of every conversation is at least the created_at of
\* each of its messages: it has been brought up to date by every append, of
\* a user message as of an assistant message.
C17_LastActivityFollowsAppends ==
    \A m \in Range(messages_tbl) :
        conversations[m.conversation_id].updated_at >= m.created_at

Roles == {"user", "assistant", "system"}

\* The assistant's row carries a tool-invocation record
HasToolRecord(m) == m.tool_calls # <<>>

\* C18: every stored message has a role of the closed set; a stored user
\* message has content, and a stored assistant message has content unless
\* it carries a tool-invocation record.
C18_StoredMessagesWellFormed ==
    \A m \in Range(messages_tbl) :
        /\ m.role \in Roles
        /\ m.role = "user" => m.content # ""
        /\ (m.role = "assistant" /\ m.content = <<>>) => HasToolRecord(m)

\* Position p is in the trail, and what was entered just before it is q
EnteredFrom(p, q) ==
    \A i \in 1..Len(trail) : trail[i] = p => (i > 1 /\ trail[i - 1] = q)

Finalized == pc \in {"FINALIZED", "PERSISTED"}

\* C19: a finalized turn whose first response asked for no tool has made
\* one model call, entered FINALIZED straight from MODEL_CALLED, and its
\* text is that response's; a finalized turn whose first response asked for
\* tools has made two model calls; no turn makes more than two, and
\* TOOLS_EXECUTED is entered only from TOOLS_REQUESTED.
C19_OneOrTwoModelCalls ==
    /\ modelCalls <= 2
    /\ (Finalized /\ message.tool_calls = <<>>) =>
          /\ modelCalls = 1
          /\ EnteredFrom("FINALIZED", "MODEL_CALLED")
          /\ final = message.content
    /\ (Finalized /\ message.tool_calls # <<>>) =>
          /\ modelCalls = 2
          /\ EnteredFrom("FINALIZED", "MODEL_RESUMED")
    /\ EnteredFrom("TOOLS_EXECUTED", "TOOLS_REQUESTED")

\* C19 witness: a turn with tools is finalized after two model calls, by
\* way of TOOLS_REQUESTED, TOOLS_EXECUTED and MODEL_RESUMED
C19_Witness ==
    /\ pc = "FINALIZED"
    /\ message.tool_calls # <<>>
    /\ modelCalls = 2
    /\ SubSeq(trail, Len(trail) - 3, Len(trail))
          = <<"TOOLS_REQUESTED", "TOOLS_EXECUTED", "MODEL_RESUMED", "FINALIZED">>

InTurn == pc \notin {"IDLE"} \cup Terminal

\* C20: every turn that has been received eventually is PERSISTED or FAILED,
\* each call it awaits returning.
C20_TurnTerminates == InTurn ~> pc \in Terminal

\* C20 witness: a turn that ran two tools and a second model call has ended
\* PERSISTED, its stream closed
C20_Witness ==
    /\ pc = "PERSISTED"
    /\ streamClosed
    /\ Len(results) = 2
    /\ modelCalls = 2

\* The assistant rows appended since the turn's user message was saved
TurnAssistantRows ==
    {i \in (user_msg_id + 1)..Len(messages_tbl) : messages_tbl[i].role = "assistant"}

\* C21: a turn appends at most one assistant message, and none before it is
\* FINALIZED: a turn that failed before FINALIZED, after its tools ran or
\* not, has no assistant row, whole or partial.
C21_AssistantMessageOnceAfterFinalized ==
    user_msg_id # 0 =>
        /\ Cardinality(TurnAssistantRows) <= 1
        /\ "FINALIZED" \notin Range(trail) => TurnAssistantRows = {}
        /\ \A i \in TurnAssistantRows : messages_tbl[i].content = final

\* C21 witness: the second model call failed after a tool had run: the turn
\* is FAILED with no assistant row
C21_Witness ==
    /\ pc = "FAILED"
    /\ user_msg_id # 0
    /\ modelCalls = 2
    /\ \E e \in Range(execLog) : e.entry.status = "success"
    /\ TurnAssistantRows = {}

\* The rows of the tasks table written between b and a
RowsWritten(b, a) ==
    {i \in 1..Len(a) : IF i <= Len(b) THEN a[i] # b[i] ELSE TRUE}

\* C22: the tool requests of a response are dispatched one by one, each at
\* most once, in order: the k-th execution is that of the k-th request,
\* also after an execution that ended in an error; the tasks table changes
\* only by these executions, by at most one row each, so a turn causes at
\* most as many writes as it has tool requests.
C22_EachRequestDispatchedOnce ==
    /\ Len(execLog) <= Len(message.tool_calls)
    /\ \A k \in 1..Len(execLog) :
          /\ execLog[k].idx = k
          /\ execLog[k].req = message.tool_calls[k]
          /\ execLog[k].before = IF k = 1 THEN InitTasks ELSE execLog[k - 1].after
          /\ Cardinality(RowsWritten(execLog[k].before, execLog[k].after)) <= 1
    /\ tasks = IF execLog = <<>> THEN InitTasks ELSE execLog[Len(execLog)].after

\* C22 witness: the first execution ended in an error, and the next
\* execution is that of the second request
C22_Witness ==
    /\ Len(execLog) = 2
    /\ execLog[1].entry.status = "error"
    /\ execLog[2].req = message.tool_calls[2]
    /\ execLog[2].entry.status = "success"

\* C23: a tool request of an unregistered name has an error result that
\* says so, whatever the state of the store, and leaves the tasks table as it
\* was; it does not end the loop: the executor fails only on a request
\* whose arguments are no JSON, and once the loop is over every request has
\* been executed.
C23_UnknownToolIsAnErrorResult ==
    /\ \A e \in Range(execLog) :
          e.req.name \notin RegisteredTools =>
              /\ e.entry = [tool |-> e.req.name, status |-> "error",
                            error |-> ErrUnknown(e.req.name)]
              /\ e.after = e.before
    /\ pc = "FAILED" =>
          /\ Len(execLog) < Len(message.tool_calls)
          /\ ~message.tool_calls[Len(execLog) + 1].json_ok
    /\ pc = "TOOLS_EXECUTED" => Len(execLog) = Len(message.tool_calls)

\* C23 witness: an unregistered name was asked for with the store down, and
\* the request after it was executed
C23_Witness ==
    /\ Len(execLog) = 2
    /\ execLog[1].req.name \notin RegisteredTools
    /\ ~execLog[1].db_ok
    /\ execLog[2].entry.status = "success"

\* The user owns at least one task the snapshot may show (pending or in
\* progress)
HasCandidates ==
    \E t \in Range(tasks) :
        t.user_id = user_id /\ t.status \in {"pending", "in_progress"}

\* Estimated cost of a snapshot holding the first entity alone
TopEntityCost ==
    estimate_tokens(StrContext([user_context EXCEPT
                                   !.tasks = <<user_context.tasks[1]>>]))

\* C24: a user with at least one candidate entity never gets a snapshot empty
\* of entities; when the first entity alone costs more than the budget the
\* snapshot is cut down to fit the budget; the no-context marker appears only
\* for a user without candidate entities.
C24_OverBudgetEntityIsTruncated ==
    pc = "CONTEXT_BUILT" =>
        /\ HasCandidates => user_context.tasks # <<>>
        /\ format_user_context(user_context) = "User has no active tasks."
              => ~HasCandidates
        /\ (user_context.tasks # <<>> /\ TopEntityCost > InTenths(budget_tokens))
              => SnapshotCost <= InTenths(budget_tokens)

\* C25: an estimate is a non-negative integer that depends on the model and
\* the text alone: whatever calls came before, it is the count the model's
\* own tokenizer gives for the text, so hits, misses and evictions of the
\* handle cache never change it; the cache holds at most CacheCapacity
\* handles, one per model.
C25_EstimateIgnoresCacheHistory ==
    /\ estimated # NoEstimate =>
          /\ estimated.tokens \in Nat
          /\ estimated.tokens =
                 CountTokens(LoadEncoding(estimated.model), estimated.text)
    /\ Len(encoding_cache) <= CacheCapacity
    /\ \A i, j \in 1..Len(encoding_cache) :
          encoding_cache[i].key = encoding_cache[j].key => i = j

\* A full cache has evicted model 1, loaded it again and evicted model 2 for
\* it, and the call for model 1 estimated a text that models count differently
C25_Witness ==
    /\ Len(encoding_cache) = CacheCapacity
    /\ estimated.model = 1
    /\ estimated.text = "plan my day"
    /\ 2 \notin CachedModels
    /\ encoding_cache[CacheCapacity].key = 1

\* The ids of the items buildHierarchy has placed, one entry per placement:
\* goals, the milestones under them and under orphanedMilestones, and the
\* tasks under each of those milestones and under orphanedTasks
RECURSIVE Flatten(_)
Flatten(sqs) == IF sqs = <<>> THEN <<>> ELSE Head(sqs) \o Flatten(Tail(sqs))

Ids(sq) == [i \in 1..Len(sq) |-> sq[i].id]

PlacedMilestones ==
    Flatten([i \in 1..Len(hierarchyView.hierarchy) |->
                hierarchyView.hierarchy[i].milestones])
    \o hierarchyView.orphanedMilestones

Placements ==
    Ids(hierarchyView.hierarchy)
    \o Ids(PlacedMilestones)
    \o Flatten([i \in 1..Len(PlacedMilestones) |-> Ids(PlacedMilestones[i].tasks)])
    \o Ids(hierarchyView.orphanedTasks)

TimesPlaced(id) == Cardinality({i \in 1..Len(Placements) : Placements[i] = id})

\* C30: buildHierarchy partitions the timeline items: every goal, milestone
\* and task of the list is placed exactly once in the goal hierarchy, the
\* orphaned milestones (with their tasks) or the orphaned tasks, also when its
\* goal_id or milestone_id names an item the list does not hold.
C30_HierarchyPartitionsItems ==
    \A it \in Range(items) : TimesPlaced(it.id) = 1

\* The messages of a list that may go into a conversation_history
Qualifying(msgs) ==
    SelectSeq(msgs, LAMBDA m : m.role \in {"user", "assistant"}
                               /\ \E k \in 1..Len(m.content) : m.content[k] # " ")

IsSuffix(a, b) ==
    /\ Len(a) <= Len(b)
    /\ \A k \in 1..Len(a) : a[k] = b[Len(b) - Len(a) + k]

\* C26: the conversation_history of a request holds, in their order, the last
\* 10 of the messages the page held when the message was submitted that have
\* role user or assistant and text other than blanks: never a message without
\* text, never more than 10, and not the message being sent, which the page
\* shows right after the held ones.
C26_HistoryIsLastTenHeld ==
    \A i \in 1..Len(calls) :
        LET h == calls[i].conversationHistory
            q == Qualifying(calls[i].held)
        IN  /\ Len(h) <= 10
            /\ \A k \in 1..Len(h) :
                  /\ h[k].role \in {"user", "assistant"}
                  /\ h[k].content # <<>>
                  /\ \E c \in Range(h[k].content) : c # " "
            /\ IsSuffix(h, q)
            /\ Len(h) = 10 \/ Len(h) = Len(q)

\* A request went out from a page that held more than ten qualifying messages
\* and messages that do not qualify
C26_Witness ==
    \E i \in 1..Len(calls) :
        /\ calls[i].pos # "create"
        /\ Len(Qualifying(calls[i].held)) > 10
        /\ Len(calls[i].held) > Len(Qualifying(calls[i].held))
        /\ Len(calls[i].conversationHistory) = 10

\* The texts of the chunk events the turn has streamed, in their order
StreamedTexts == [k \in 1..Len(Chunks(stream)) |-> Chunks(stream)[k].content]

PrefixOf(a, b) == Len(a) <= Len(b) /\ SubSeq(b, 1, Len(a)) = a

\* C27: whatever events a call has received, its assistantContent is the texts
\* of the chunk events received before the terminal event, in their order, and
\* nothing else, also once the call has ended, and the text of a progress
\* event is in no message the page keeps. On the server no chunk is streamed
\* before the assistant message is stored, the chunk events streamed are the
\* stored content from its start on, all of it once done is sent, and the
\* text of the progress event is no part of the stored content.
C27_ProgressIsNotContent ==
    /\ \A i \in 1..Len(calls) :
          calls[i].assistantContent = calls[i].expected
    /\ \A k \in 1..Len(messages) : messages[k].content # ProgressText
    /\ ~AssistantMessageStored => StreamedTexts = <<>>
    /\ AssistantMessageStored =>
          /\ PrefixOf(StreamedTexts, messages_tbl[asst_msg_id].content)
          /\ Yielded("done") => StreamedTexts = messages_tbl[asst_msg_id].content
          /\ ProgressNote \notin Range(messages_tbl[asst_msg_id].content)

\* A call has been through two passes of its read loop, which delivered a
\* progress event and two chunk events or more; its content is the chunk texts
C27_Witness ==
    \E i \in 1..Len(calls) :
        /\ calls[i].reads = 2
        /\ calls[i].progress
        /\ calls[i].chunks >= 2
        /\ calls[i].assistantContent = calls[i].expected
        /\ Len(calls[i].assistantContent) = calls[i].chunks * Len(ChunkContent(1))

\* C28: a sendMessage call that has set isStreaming to true sets it to false
\* again, whether the response ends with done or error, ends without either,
\* is refused, throws, or stays silent until the timer fires.
C28_StreamingIsReleased == isStreaming ~> ~isStreaming

\* The timer has released a call whose stream stays silent
C28_Witness ==
    /\ Len(calls) = 1
    /\ calls[1].pos = "read"
    /\ calls[1].timeout = "fired"
    /\ ~isStreaming

\* C29: the timer of a call is cancelled when the call's read loop is left, so
\* the timer of a call that has ended never changes isStreaming.
C29_EndedCallTimerIsCancelled ==
    [][\A i \in 1..Len(calls) :
          (calls[i].pos = "end" /\ calls[i].timeout = "armed"
             /\ calls'[i].timeout = "fired") => isStreaming' = isStreaming]_vars

\* C9: when the deadline of a turn is exceeded (the page's 30 second timer
\* fires during the request), the turn ends failed with an error event as the
\* terminal event of its stream: a request whose timer fired before its
\* terminal event arrived has ended on an error event.
C9_DeadlineEndsInError ==
    \A i \in 1..Len(calls) :
        (calls[i].timeout = "fired" /\ calls[i].isDone)
            => calls[i].terminal = "error"

\* C10: no two turns overlap: sendMessage never has a request under way
\* (creating the conversation, awaiting /chat/stream, or in its read loop)
\* while the read loop of an earlier request is still running, the 30 second
\* timer having fired or not.
C10_NoOverlappingTurns ==
    \A i, j \in 1..Len(calls) :
        (i < j /\ calls[i].pos = "read") => calls[j].pos = "end"

============================================================================
